---------------------------- MODULE Spec2Model ----------------------------
(***************************************************************************)
(* Model of the Snow Leopard TypeScript client: the discriminated parser   *)
(* of src/src/models.ts (parseType, parse) and the class SnowLeopardClient *)
(* with its newline-delimited JSON streaming decoder response() and its    *)
(* single-request call retrieve(), whose code is the second half of        *)
(* src/src/__tests__/client.test.ts (lines 364-606).                       *)
(***************************************************************************)
EXTENDS Integers, Sequences, FiniteSets, TLC

(***************************************************************************)
(* Bounds of the model.                                                    *)
(***************************************************************************)
\* longest array handed to parse
MaxLen == 2
\* most records in one response body
MaxRecs == 3
\* most bytes one reader.read() delivers
MaxChunk == 4

VARIABLES
    \* ---- one call of parse(obj) (models.ts) ----
    pin,        \* the argument of parse
    pout,       \* what the call produced: a returned value or a thrown error
    ppc,        \* "idle" before the call, "returned" or "threw" after it
    \* ---- one response() generator (client.test.ts 528-598) ----
    recs,       \* the records the server wrote, as byte sequences
    terminated, \* whether the last record is followed by "\n"
    wire,       \* bytes of the body the reader has not delivered yet
    pc,         \* position of the generator
    reader,     \* "none", "held" (getReader) or "released" (releaseLock)
    pending,    \* bytes of an incomplete character kept by the TextDecoder
    buffer,     \* `buffer`: the text after the last "\n"
    lines,      \* lines of the running `for (const line of lines)` not visited yet
    emitted,    \* the values yielded to the consumer, in order
    dropped,    \* the lines reported through console.error, in order
    failure,    \* the error next() rejected with, <<>> if none
    status,     \* response.status of the fetch, "" before it resolved
    ending,     \* how the generator completed: "returned", "threw", "abandoned"
    requests,   \* number of fetch calls issued
    reads,      \* number of reader.read() calls issued
    datafileId, \* options.datafileId of the response() call
    url,        \* the URL handed to fetch, as its "/"-separated parts
    timer,      \* the setTimeout of fetchWithTimeout: "unset", "armed",
                \* "cleared" (clearTimeout), "lapsed" (cleared, and its delay
                \* has passed since) or "fired" (controller.abort())
    rejected,   \* the error fetch or reader.read() rejected with, NoError if none
    respBody,   \* response.body: "unknown" before fetch resolves, "stream", "null"
    \* ---- the client object (client.test.ts 406-431) ----
    client,     \* its fields apiKey, baseURL and timeout
    \* ---- one call of retrieve() (client.test.ts 486-517) ----
    ret,        \* the call's position, arguments, locals and outcome
    \* ---- a second response() generator on the same client ----
    other,      \* its position, body, locals and outcome
    \* ---- one call of the constructor (client.test.ts 411-431) ----
    ctor        \* its arguments, the environment, position and outcome

parseVars == <<pin, pout, ppc>>
streamVars == <<recs, terminated, wire, pc, reader, pending, buffer, lines,
                emitted, dropped, failure, ending, status, requests, reads,
                datafileId, url, timer, rejected, respBody>>
\* what the fetch of a response() call sets
fetchVars == <<url, timer, rejected, respBody>>
\* what no step of a response() call changes
otherVars == <<pin, pout, ppc, client, datafileId, ret, other, ctor>>
vars == <<pin, pout, ppc, recs, terminated, wire, pc, reader, pending, buffer,
          lines, emitted, dropped, failure, ending, status, requests, reads,
          datafileId, url, timer, rejected, respBody, client, ret, other,
          ctor>>

(***************************************************************************)
(* JavaScript values.  Every value is a record of the same shape:          *)
(*   k      typeof / kind of the value                                     *)
(*   p      the text of a primitive                                        *)
(*   d      the __type__ member of an object (DAbsent when it has none):   *)
(*          its typeof k and the string s that String(value) gives         *)
(*   f      the other members of an object, as a sequence of tokens        *)
(*   items  the elements of an array, or the `data` member of an object    *)
(***************************************************************************)
DAbsent == [k |-> "absent", s |-> "undefined"]
DNull == [k |-> "null", s |-> "null"]
DStr(s) == [k |-> "string", s |-> s]
DNum(s) == [k |-> "number", s |-> s]
DBool(s) == [k |-> "boolean", s |-> s]
DObj == [k |-> "object", s |-> "[object Object]"]

Null == [k |-> "null", p |-> "", d |-> DAbsent, f |-> <<>>, items |-> <<>>]
Undefined == [k |-> "undefined", p |-> "", d |-> DAbsent, f |-> <<>>, items |-> <<>>]
Prim(kind, text) == [k |-> kind, p |-> text, d |-> DAbsent, f |-> <<>>, items |-> <<>>]
Arr(elems) == [k |-> "array", p |-> "", d |-> DAbsent, f |-> <<>>, items |-> elems]
Obj(disc, fields, data) == [k |-> "object", p |-> "", d |-> disc, f |-> fields, items |-> data]

\* the __type__ values of the interfaces declared in models.ts
InterfaceTags == {"schemaData", "errorSchemaData", "retrieveResponse", "apiError",
                  "responseStart", "responseData", "earlyTermination", "responseResult"}

\* the case labels of the switch in parseType
SwitchCases == {"apiError", "retrieveResponse", "errorSchemaData", "responseStart",
                "responseData", "earlyTermination", "responseResult"}

(***************************************************************************)
(* Outcome of a call: a returned value or a thrown Error with its message  *)
(* (the message is the sequence of the strings concatenated into it).      *)
(***************************************************************************)
Return(v) == [ok |-> TRUE, v |-> v, err |-> <<>>]
Throw(msg) == [ok |-> FALSE, v |-> Null, err |-> msg]

\* !x for a __type__ member: undefined, null, "", 0, NaN and false are falsy
Falsy(disc) ==
    \/ disc.k \in {"absent", "null"}
    \/ disc.k = "string" /\ disc.s = ""
    \/ disc.k = "number" /\ disc.s \in {"0", "NaN"}
    \/ disc.k = "boolean" /\ disc.s = "false"

\* parseType with the guard on a missing __type__ left out
parseType_NoMissingCheck(obj) ==
    IF obj.d.k = "string" /\ obj.d.s \in SwitchCases
    THEN Return(obj)
    ELSE Throw(<<"Unknown response type ", obj.d.s>>)

\* parseType with the offending value left out of the message
parseType_NoTagInMessage(obj) ==
    IF Falsy(obj.d)
    THEN Throw(<<"Missing __type__ field">>)
    ELSE IF obj.d.k = "string" /\ obj.d.s \in SwitchCases
         THEN Return(obj)
         ELSE Throw(<<"Unknown response type ">>)

\* parseType that also looks into the entries of `data` and rejects an object
\* with an entry that has no __type__
parseType_ChecksData(obj) ==
    IF Falsy(obj.d)
    THEN Throw(<<"Missing __type__ field">>)
    ELSE IF obj.d.k = "string" /\ obj.d.s \in SwitchCases
         THEN IF \E i \in 1..Len(obj.items) : Falsy(obj.items[i].d)
              THEN Throw(<<"Missing __type__ field">>)
              ELSE Return(obj)
         ELSE Throw(<<"Unknown response type ", obj.d.s>>)

\* function parseType(obj): the switch compares with ===, so only a string matches
parseType(obj) ==
    IF Falsy(obj.d)
    THEN Throw(<<"Missing __type__ field">>)
    ELSE IF obj.d.k = "string" /\ obj.d.s \in SwitchCases
         THEN Return(obj)
         ELSE Throw(<<"Unknown response type ", obj.d.s>>)

RECURSIVE parse(_), ArrayMap(_, _, _), ArrayMap_SkipFailed(_, _, _),
          ArrayMap_DropNull(_, _, _)

\* obj.map(parse) that leaves a failing element out instead of throwing
ArrayMap_SkipFailed(elems, i, acc) ==
    IF i > Len(elems)
    THEN Return(Arr(acc))
    ELSE LET r == parse(elems[i])
         IN  IF r.ok
             THEN ArrayMap_SkipFailed(elems, i + 1, Append(acc, r.v))
             ELSE ArrayMap_SkipFailed(elems, i + 1, acc)

\* obj.map(parse) that filters the null results out
ArrayMap_DropNull(elems, i, acc) ==
    IF i > Len(elems)
    THEN Return(Arr(acc))
    ELSE LET r == parse(elems[i])
         IN  IF ~r.ok
             THEN r
             ELSE IF r.v = Null
                  THEN ArrayMap_DropNull(elems, i + 1, acc)
                  ELSE ArrayMap_DropNull(elems, i + 1, Append(acc, r.v))

\* obj.map(parse): calls parse on the elements from left to right and collects
\* the results; the first element on which parse throws ends the call
ArrayMap(elems, i, acc) ==
    IF i > Len(elems)
    THEN Return(Arr(acc))
    ELSE LET r == parse(elems[i])
         IN  IF r.ok
             THEN ArrayMap(elems, i + 1, Append(acc, r.v))
             ELSE r

\* parse with `if (!obj)` in place of `if (obj == null)`: every falsy value
\* becomes null
parse_FalsyToNull(obj) ==
    IF \/ obj.k \in {"null", "undefined"}
       \/ obj.k \in {"string", "number", "boolean"} /\ obj.p \in {"", "0", "false"}
    THEN Return(Null)
    ELSE IF obj.k = "object"
         THEN parseType(obj)
         ELSE IF obj.k = "array"
              THEN ArrayMap(obj.items, 1, <<>>)
              ELSE Return(obj)

\* export function parse(obj)
parse(obj) ==
    IF obj.k \in {"null", "undefined"}
    THEN Return(Null)
    ELSE IF obj.k = "object"
         THEN parseType(obj)
         ELSE IF obj.k = "array"
              THEN ArrayMap(obj.items, 1, <<>>)
              ELSE Return(obj)

(***************************************************************************)
(* The arguments parse is called with.                                     *)
(***************************************************************************)
SeqsUpTo(S, n) == UNION {[1..m -> S] : m \in 0..n}

Discriminators ==
    {DAbsent, DNull, DStr(""), DNum("0"), DBool("false"),
     DNum("1"), DBool("true"), DObj, DStr("bogus"), DStr("unknownType")}
    \cup {DStr(t) : t \in InterfaceTags}

FieldSets == {<<>>, <<"callId">>, <<"callId:number", "extra">>}

StartObj == Obj(DStr("responseStart"), <<"callId">>, <<>>)
SchemaObj == Obj(DStr("schemaData"), <<"callId">>, <<>>)
UntaggedObj == Obj(DAbsent, <<"callId">>, <<>>)
BogusObj == Obj(DStr("bogus"), <<>>, <<>>)

DataSeqs == {<<>>, <<SchemaObj>>, <<UntaggedObj>>, <<StartObj, BogusObj>>}

Objects == {Obj(disc, fields, data) :
                disc \in Discriminators, fields \in FieldSets, data \in DataSeqs}

Primitives == {Prim("string", "string"), Prim("string", ""), Prim("number", "123"),
               Prim("number", "0"), Prim("boolean", "true"), Prim("boolean", "false")}

InnerLeaves == {Null, StartObj, BogusObj}
InnerArrays == {Arr(s) : s \in SeqsUpTo(InnerLeaves, MaxLen)}
OuterLeaves == {Null, Undefined, Prim("string", "string"), Prim("number", "0"),
                StartObj, Obj(DStr("responseData"), <<>>, <<SchemaObj>>),
                SchemaObj, UntaggedObj, BogusObj}
OuterArrays == {Arr(s) : s \in SeqsUpTo(OuterLeaves \cup InnerArrays, MaxLen)}
DeepArrays == {Arr(<<Arr(<<a>>)>>) : a \in InnerArrays}

ParseInputs == {Null, Undefined} \cup Primitives \cup Objects
               \cup OuterArrays \cup DeepArrays


(***************************************************************************)
(* The client object and the request of a call.                            *)
(***************************************************************************)
\* An error: its name and its message (a sequence of text parts)
Error(message) == [name |-> "Error", message |-> message]
NoError == [name |-> "", message |-> <<>>]
\* what fetch rejects with when the connection fails
NetworkError == [name |-> "TypeError", message |-> <<"Network Error">>]
\* what fetch rejects with after controller.abort()
AbortError == [name |-> "AbortError", message |-> <<"This operation was aborted">>]
\* what reader.read() rejects with when the connection breaks
ReadFailed == [name |-> "TypeError", message |-> <<"read failed">>]

\* the client built with no options but the API key
DefaultClient ==
    [apiKey |-> "key",
     baseURL |-> "https://api.snowleopard.ai",
     timeout |-> [connect |-> "5000", read |-> "600000", write |-> "10000"]]
\* a || b of JavaScript on values that are left out or primitive
Or(a, b) == IF Falsy(a) THEN b ELSE a

\* no options object, and the options of a call that leaves every one out
NoTimeout == [connect |-> DAbsent, read |-> DAbsent, write |-> DAbsent]
NoOptions == [apiKey |-> DAbsent, baseURL |-> DAbsent, timeout |-> NoTimeout]

\* the environment: process.env.SNOWLEOPARD_API_KEY and SNOWLEOPARD_LOC, and
\* whether `process` exists at all
EnvOf(hasProcess, key, loc) ==
    [hasProcess |-> hasProcess, SNOWLEOPARD_API_KEY |-> key, SNOWLEOPARD_LOC |-> loc]

\* `typeof process !== 'undefined' && process.env?.NAME`
EnvValue(env, name) ==
    IF env.hasProcess THEN env[name] ELSE DBool("false")

\* the fields of no client
NoClient ==
    [apiKey |-> "", baseURL |-> "",
     timeout |-> [connect |-> "", read |-> "", write |-> ""]]

\* the constructor without the fallback to process.env for the API key
SnowLeopardClient_NoEnvKey(options, env) ==
    LET apiKey == options.apiKey
    IN  IF Falsy(apiKey)
        THEN [ok |-> FALSE,
              error |-> Error(<<"Missing required argument \"apiKey\". ",
                                "Please provide it in the constructor options.">>),
              client |-> NoClient]
        ELSE [ok |-> TRUE,
              error |-> NoError,
              client |->
                [apiKey |-> apiKey.s,
                 timeout |->
                   [connect |-> Or(options.timeout.connect, DNum("5000")).s,
                    read |-> Or(options.timeout.read, DNum("600000")).s,
                    write |-> Or(options.timeout.write, DNum("10000")).s],
                 baseURL |-> Or(options.baseURL,
                                Or(EnvValue(env, "SNOWLEOPARD_LOC"),
                                   DStr("https://api.snowleopard.ai"))).s]]

\* new SnowLeopardClient(options): the error thrown, or the fields of the
\* object.  Options that are not passed (or no options at all) read as left
\* out through `options?.`
SnowLeopardClient(options, env) ==
    LET apiKey == Or(options.apiKey, EnvValue(env, "SNOWLEOPARD_API_KEY"))
    IN  IF Falsy(apiKey)
        THEN [ok |-> FALSE,
              error |-> Error(<<"Missing required argument \"apiKey\". ",
                                "Please provide it in the constructor options.">>),
              client |-> NoClient]
        ELSE [ok |-> TRUE,
              error |-> NoError,
              client |->
                [apiKey |-> apiKey.s,
                 timeout |->
                   [connect |-> Or(options.timeout.connect, DNum("5000")).s,
                    read |-> Or(options.timeout.read, DNum("600000")).s,
                    write |-> Or(options.timeout.write, DNum("10000")).s],
                 baseURL |-> Or(options.baseURL,
                                Or(EnvValue(env, "SNOWLEOPARD_LOC"),
                                   DStr("https://api.snowleopard.ai"))).s]]

\* no constructor call
NoConstruction ==
    [pc |-> "None", options |-> NoOptions,
     env |-> EnvOf(FALSE, DAbsent, DAbsent), error |-> NoError]

\* the clients of the model: the default one and one with its own base URL
\* and read timeout
Clients ==
    {DefaultClient,
     [apiKey |-> "key",
      baseURL |-> "http://localhost:8000",
      timeout |-> [connect |-> "5000", read |-> "30000", write |-> "10000"]]}

\* options.datafileId: left out, the empty string, a blank or an id
DatafileIds == {DAbsent, DStr(""), DStr(" "), DStr("dfid")}

\* buildPath without the test of datafileId: the template is always used
buildPath_NoTest(id, endpoint) == <<"datafiles", id.s, endpoint>>

\* buildPath, as the "/"-separated parts of the path
buildPath(id, endpoint) ==
    IF Falsy(id) THEN <<endpoint>> ELSE <<"datafiles", id.s, endpoint>>

\* `${this.baseURL}/${this.buildPath(options.datafileId, endpoint)}`
RequestURL(c, id, endpoint) == <<c.baseURL>> \o buildPath(id, endpoint)

\* the catch clause of fetchWithTimeout with every error wrapped in a new one
fetchWithTimeoutCatch_Wrap(error, timeoutMs) ==
    IF error.name = "AbortError"
    THEN Error(<<"Request timeout after ", timeoutMs, "ms">>)
    ELSE Error(<<"Request failed: ">> \o error.message)

\* the catch clause of fetchWithTimeout: what it throws for the error fetch
\* rejected with
fetchWithTimeoutCatch(error, timeoutMs) ==
    IF error.name = "AbortError"
    THEN Error(<<"Request timeout after ", timeoutMs, "ms">>)
    ELSE error

\* the catch clause of retrieve and of response: every branch rethrows
Rethrow(error) == error

\* no second response() call: pc "None".  The fields are those of the first
\* generator: the records of the body, the bytes not delivered yet, the
\* reader, the decoder's pending bytes, buffer, lines, what was emitted and
\* dropped, how the generator ended, and the number of reads
NoOther ==
    [pc |-> "None", recs |-> <<>>, terminated |-> FALSE, wire |-> <<>>,
     reader |-> "none", pending |-> <<>>, buffer |-> <<>>, lines |-> <<>>,
     emitted |-> <<>>, dropped |-> <<>>, ending |-> "", reads |-> 0]

\* the statuses a response arrives with
Statuses == {"200", "409", "500"}

\* no retrieve() call: pc "None".  The fields of a call are its position pc
\* ("NotStarted", "Fetching" at `await fetchWithTimeout`, "Decoding" at
\* `await response.json()`, "Closed"), its argument datafileId, the url and
\* the timer of its fetchWithTimeout, whether the read timeout has elapsed
\* since the call, response.status, the bytes of the response body, the
\* number of response.json() calls, the error the transport rejected with,
\* the value returned, the error thrown, how the call ended ("returned",
\* "threw") and the number of fetch calls issued
NoRetrieve ==
    [pc |-> "None", datafileId |-> DAbsent, url |-> <<>>, timer |-> "unset",
     elapsed |-> FALSE, status |-> "", data |-> <<>>, jsonCalls |-> 0,
     rejected |-> NoError, result |-> Null, failure |-> NoError,
     ending |-> "", requests |-> 0]

(***************************************************************************)
(* One call of parse.                                                      *)
(***************************************************************************)
\* the generator's variables before response() is called
StreamIdle ==
    /\ recs = <<>> /\ terminated = FALSE /\ wire = <<>>
    /\ pc = "NotStarted" /\ reader = "none"
    /\ pending = <<>> /\ buffer = <<>> /\ lines = <<>>
    /\ emitted = <<>> /\ dropped = <<>> /\ failure = <<>> /\ ending = ""
    /\ status = "" /\ requests = 0 /\ reads = 0
    /\ datafileId = DAbsent /\ url = <<>> /\ timer = "unset"
    /\ rejected = NoError /\ respBody = "unknown"

InitParse ==
    /\ pin \in ParseInputs
    /\ pout = Return(Null)
    /\ ppc = "idle"
    /\ StreamIdle
    /\ client = DefaultClient
    /\ ret = NoRetrieve
    /\ other = NoOther
    /\ ctor = NoConstruction

\* parse(pin) is called and returns or throws
CallParse ==
    /\ ppc = "idle"
    /\ pout' = parse(pin)
    /\ ppc' = IF parse(pin).ok THEN "returned" ELSE "threw"
    /\ UNCHANGED pin
    /\ UNCHANGED streamVars
    /\ UNCHANGED <<client, ret, other, ctor>>

NextParse == CallParse

SpecParse == InitParse /\ [][NextParse]_vars

(***************************************************************************)
(* Claims about parse, checked under SpecParse.                            *)
(***************************************************************************)
ParseCalled == ppc # "idle"

\* the __type__ values the claims call absent, null or otherwise falsy
MissingDiscriminators == {DAbsent, DNull, DStr(""), DNum("0"), DBool("false")}

\* the __type__ values the specification calls recognized
EightTags == {DStr(t) : t \in InterfaceTags}

\* C2: for an object whose discriminator is any one of the eight tags, parse
\* does not fail and returns a value structurally equal to its input.
C2_EightTagsReturnInput ==
    (ParseCalled /\ pin.k = "object" /\ pin.d \in EightTags)
        => (ppc = "returned" /\ pout = Return(pin))

\* C7: parse of a non-array object whose discriminator is absent, null or
\* otherwise falsy throws 'Missing __type__ field', whatever its other fields.
C7_MissingDiscriminator ==
    (ParseCalled /\ pin.k = "object" /\ pin.d \in MissingDiscriminators)
        => (ppc = "threw" /\ pout.err = <<"Missing __type__ field">>)

C7_Witness ==
    /\ ppc = "threw" /\ pin.k = "object" /\ pin.d = DNull
    /\ pin.f # <<>> /\ pin.items # <<>>

\* C8: parse of a non-array object whose discriminator is truthy but not one
\* of the eight recognized tags throws the unknown-type error, and the message
\* contains the offending discriminator value.
C8_UnknownDiscriminator ==
    (ParseCalled /\ pin.k = "object"
        /\ pin.d \notin MissingDiscriminators /\ pin.d \notin EightTags)
        => /\ ppc = "threw"
           /\ pout.err # <<"Missing __type__ field">>
           /\ pout.err[1] = "Unknown response type "
           /\ \E i \in 2..Len(pout.err) : pout.err[i] = pin.d.s

C8_Witness ==
    /\ ppc = "threw" /\ pin.k = "object" /\ pin.d = DStr("unknownType")
    /\ pout.err = <<"Unknown response type ", "unknownType">>

\* every element of the array pin is one parse accepts
AllElementsParse == \A i \in 1..Len(pin.items) : parse(pin.items[i]).ok

\* C9: parse of an array returns an array of the same length whose i-th
\* element is parse of the i-th input element (nested arrays, null and
\* primitives included).
C9_ArrayElementwise ==
    (ParseCalled /\ pin.k = "array" /\ AllElementsParse)
        => /\ ppc = "returned"
           /\ pout.v.k = "array"
           /\ Len(pout.v.items) = Len(pin.items)
           /\ \A i \in 1..Len(pin.items) : pout.v.items[i] = parse(pin.items[i]).v

C9_Witness ==
    /\ ppc = "returned" /\ pin.k = "array" /\ Len(pin.items) = MaxLen
    /\ pin.items[1].k = "array" /\ Len(pin.items[1].items) > 0
    /\ pin.items[MaxLen] = Null

\* C10: if parse fails on an element of an array, the whole call fails with
\* the error of the (first) failing element and no partial array is returned,
\* wherever the bad element sits.
C10_ArrayNotFailureIsolated ==
    (ParseCalled /\ pin.k = "array" /\ ~AllElementsParse)
        => LET bad == CHOOSE i \in 1..Len(pin.items) :
                         /\ ~parse(pin.items[i]).ok
                         /\ \A j \in 1..(i - 1) : parse(pin.items[j]).ok
           IN  /\ ppc = "threw"
               /\ pout.v = Null
               /\ pout.err = parse(pin.items[bad]).err

C10_Witness ==
    /\ ppc = "threw" /\ pin.k = "array" /\ Len(pin.items) = MaxLen
    /\ parse(pin.items[1]).ok
    /\ ~parse(pin.items[MaxLen]).ok

\* C11: parse never fails on a non-object input: parse(null) and
\* parse(undefined) return null, and parse of a string, number or boolean
\* returns that same value.
C11_NonObjectsPassThrough ==
    (ParseCalled /\ pin.k \notin {"object", "array"})
        => /\ ppc = "returned"
           /\ pout.ok
           /\ pout.v = (IF pin.k \in {"null", "undefined"} THEN Null ELSE pin)

C11_Witness ==
    /\ ppc = "returned" /\ pin = Prim("string", "") /\ pout.v = pin

(***************************************************************************)
(* The response body.  A body is a sequence of bytes; a byte stands for    *)
(* itself ("{", "}", " ", "\n"), for the bytes of one JSON token           *)
(* ("null", a "__type__" member), or for one byte of the two-byte UTF-8    *)
(* encoding 0xC3 0xA9 of U+00E9 inside a string member.  Text is a         *)
(* sequence of characters: the same tokens, "U+00E9" and "U+FFFD".         *)
(***************************************************************************)
LF == "\n"
Whitespace == {" ", LF}
StringChars == {"U+00E9", "U+FFFD"}
TagTokens == {"T:responseStart", "T:responseData", "T:schemaData", "T:bogus"}

\* the __type__ value a tag token spells
TagOf(tok) ==
    CASE tok = "T:responseStart" -> "responseStart"
      [] tok = "T:responseData" -> "responseData"
      [] tok = "T:schemaData" -> "schemaData"
      [] OTHER -> "bogus"

\* the records a server may write on the wire
RecTexts ==
    { <<"{", "T:responseStart", "}">>,
      <<"{", "T:responseData", "0xC3", "0xA9", "}">>,
      <<"{", "T:schemaData", "}">>,
      <<"{", "T:bogus", "}">>,
      <<"{", "}">>,
      <<"{", "T:responseStart">>,
      <<"null">>,
      <<" ">>,
      <<>> }

RECURSIVE Join(_)
\* the records separated by "\n"
Join(rs) ==
    IF rs = <<>> THEN <<>>
    ELSE IF Len(rs) = 1 THEN rs[1]
         ELSE rs[1] \o <<LF>> \o Join(Tail(rs))

\* the bytes of the body
Body(rs, term) == Join(rs) \o (IF term THEN <<LF>> ELSE <<>>)

RECURSIVE DecodeFrom(_, _, _), DecodeFrom_NoStream(_, _, _)

\* TextDecoder.decode(value) without {stream: true}: an incomplete character
\* at the end of the chunk is replaced instead of kept
DecodeFrom_NoStream(pend, bytes, text) ==
    IF bytes = <<>>
    THEN [text |-> IF pend = <<>> THEN text ELSE Append(text, "U+FFFD"),
          pending |-> <<>>]
    ELSE LET b == Head(bytes)
             rest == Tail(bytes)
         IN  IF pend = <<>>
             THEN IF b = "0xC3" THEN DecodeFrom_NoStream(<<b>>, rest, text)
                  ELSE IF b = "0xA9"
                       THEN DecodeFrom_NoStream(<<>>, rest, Append(text, "U+FFFD"))
                       ELSE DecodeFrom_NoStream(<<>>, rest, Append(text, b))
             ELSE IF b = "0xA9"
                  THEN DecodeFrom_NoStream(<<>>, rest, Append(text, "U+00E9"))
                  ELSE IF b = "0xC3"
                       THEN DecodeFrom_NoStream(<<b>>, rest, Append(text, "U+FFFD"))
                       ELSE DecodeFrom_NoStream(<<>>, rest, text \o <<"U+FFFD", b>>)

\* decoder.decode(value, {stream: true}): UTF-8 decoding that keeps the bytes
\* of an incomplete character for the next call; a byte that cannot continue
\* or start a character becomes U+FFFD
DecodeFrom(pend, bytes, text) ==
    IF bytes = <<>>
    THEN [text |-> text, pending |-> pend]
    ELSE LET b == Head(bytes)
             rest == Tail(bytes)
         IN  IF pend = <<>>
             THEN IF b = "0xC3" THEN DecodeFrom(<<b>>, rest, text)
                  ELSE IF b = "0xA9"
                       THEN DecodeFrom(<<>>, rest, Append(text, "U+FFFD"))
                       ELSE DecodeFrom(<<>>, rest, Append(text, b))
             ELSE IF b = "0xA9"
                  THEN DecodeFrom(<<>>, rest, Append(text, "U+00E9"))
                  ELSE IF b = "0xC3"
                       THEN DecodeFrom(<<b>>, rest, Append(text, "U+FFFD"))
                       ELSE DecodeFrom(<<>>, rest, text \o <<"U+FFFD", b>>)

RECURSIVE SplitFrom(_, _, _)
\* text.split('\n'): the segments between the separators, at least one
SplitFrom(text, cur, acc) ==
    IF text = <<>>
    THEN Append(acc, cur)
    ELSE IF Head(text) = LF
         THEN SplitFrom(Tail(text), <<>>, Append(acc, cur))
         ELSE SplitFrom(Tail(text), Append(cur, Head(text)), acc)

split(text) == SplitFrom(text, <<>>, <<>>)

\* line.trim() is the empty string (falsy)
Blank(line) == \A i \in 1..Len(line) : line[i] \in Whitespace

\* the text without the whitespace JSON allows between tokens
Tokens(text) == SelectSeq(text, LAMBDA c : c \notin Whitespace)

\* JSON.parse(text) on the texts of the model: null, or an object with an
\* optional "__type__" member followed by string-valued members
JSONparse(text) ==
    LET t == Tokens(text)
    IN  IF t = <<"null">>
        THEN Return(Null)
        ELSE IF Len(t) >= 2 /\ t[1] = "{" /\ t[Len(t)] = "}"
             THEN LET inner == SubSeq(t, 2, Len(t) - 1)
                  IN  IF inner = <<>>
                      THEN Return(Obj(DAbsent, <<>>, <<>>))
                      ELSE IF /\ inner[1] \in TagTokens
                              /\ \A i \in 2..Len(inner) : inner[i] \in StringChars
                           THEN Return(Obj(DStr(TagOf(inner[1])), Tail(inner), <<>>))
                           ELSE IF \A i \in 1..Len(inner) : inner[i] \in StringChars
                                THEN Return(Obj(DAbsent, inner, <<>>))
                                ELSE Throw(<<"SyntaxError">>)
             ELSE Throw(<<"SyntaxError">>)

(***************************************************************************)
(* SnowLeopardClient.response: the generator between two suspensions.      *)
(***************************************************************************)
\* the try block of a line: JSON.parse(line), then parse(parsed)
TryLine(line) ==
    LET j == JSONparse(line)
    IN  IF j.ok THEN parse(j.v) ELSE j

RECURSIVE RunLines(_, _), RunLines_StopAtBad(_, _), RunLines_BlankParsed(_, _)

\* the for loop without `if (line.trim())`: a blank line goes through the try
\* block, where JSON.parse throws on it
RunLines_BlankParsed(ls, drops) ==
    IF ls = <<>>
    THEN [yield |-> FALSE, v |-> Null, rest |-> <<>>, dropped |-> drops]
    ELSE IF TryLine(Head(ls)).ok
         THEN [yield |-> TRUE, v |-> TryLine(Head(ls)).v,
               rest |-> Tail(ls), dropped |-> drops]
         ELSE RunLines_BlankParsed(Tail(ls), Append(drops, Head(ls)))

\* the for loop with a break in the catch clause: a line that fails to parse
\* ends the handling of the chunk
RunLines_StopAtBad(ls, drops) ==
    IF ls = <<>>
    THEN [yield |-> FALSE, v |-> Null, rest |-> <<>>, dropped |-> drops]
    ELSE IF Blank(Head(ls))
         THEN RunLines_StopAtBad(Tail(ls), drops)
         ELSE IF TryLine(Head(ls)).ok
              THEN [yield |-> TRUE, v |-> TryLine(Head(ls)).v,
                    rest |-> Tail(ls), dropped |-> drops]
              ELSE [yield |-> FALSE, v |-> Null, rest |-> <<>>,
                    dropped |-> Append(drops, Head(ls))]

\* `for (const line of lines)` from the line it stands at up to the next
\* yield or to the end of the lines: blank lines are skipped, a line whose
\* try block throws is reported with console.error and skipped
RunLines(ls, drops) ==
    IF ls = <<>>
    THEN [yield |-> FALSE, v |-> Null, rest |-> <<>>, dropped |-> drops]
    ELSE IF Blank(Head(ls))
         THEN RunLines(Tail(ls), drops)
         ELSE IF TryLine(Head(ls)).ok
              THEN [yield |-> TRUE, v |-> TryLine(Head(ls)).v,
                    rest |-> Tail(ls), dropped |-> drops]
              ELSE RunLines(Tail(ls), Append(drops, Head(ls)))

\* the generator runs the for loop over ls and suspends: at a yield, or at
\* the next `await reader.read()` when the lines are used up
Resume(ls) ==
    LET r == RunLines(ls, dropped)
    IN  /\ dropped' = r.dropped
        /\ lines' = r.rest
        /\ IF r.yield
           THEN /\ emitted' = Append(emitted, r.v)
                /\ pc' = "Yielded"
                /\ reads' = reads
           ELSE /\ emitted' = emitted
                /\ pc' = "Reading"
                /\ reads' = reads + 1

Init ==
    /\ pin = Null /\ pout = Return(Null) /\ ppc = "idle"
    /\ recs \in SeqsUpTo(RecTexts, MaxRecs)
    /\ terminated \in (IF recs = <<>> THEN {FALSE} ELSE BOOLEAN)
    /\ wire = Body(recs, terminated)
    /\ pc = "NotStarted" /\ reader = "none"
    /\ pending = <<>> /\ buffer = <<>> /\ lines = <<>>
    /\ emitted = <<>> /\ dropped = <<>> /\ failure = <<>> /\ ending = ""
    /\ status = "" /\ requests = 0 /\ reads = 0
    /\ datafileId = DAbsent /\ url = <<>> /\ timer = "unset"
    /\ rejected = NoError /\ respBody = "unknown"
    /\ client = DefaultClient
    /\ ret = NoRetrieve
    /\ other = NoOther
    /\ ctor = NoConstruction

\* the consumer's first next(): the generator runs up to `await fetch(...)`
Start ==
    /\ pc = "NotStarted"
    /\ pc' = "Fetching"
    /\ url' = RequestURL(client, datafileId, "response")
    /\ timer' = "armed"
    /\ requests' = requests + 1
    /\ UNCHANGED <<recs, terminated, wire, reader, pending, buffer, lines,
                   emitted, dropped, failure, status, reads, rejected, respBody>>
    /\ UNCHANGED ending
    /\ UNCHANGED otherVars

\* the consumer calls return() on the generator before its first next()
ReturnNotStarted ==
    /\ pc = "NotStarted"
    /\ pc' = "Closed"
    /\ ending' = "abandoned"
    /\ UNCHANGED <<recs, terminated, wire, reader, pending, buffer, lines,
                   emitted, dropped, failure, status, requests, reads>>
    /\ UNCHANGED fetchVars
    /\ UNCHANGED otherVars

\* the status test of response() with 409 let through as in retrieve()
responseAccepts_409(st) == st \in {"200", "409"}

\* the status test of response(): `response.status !== 200` throws
responseAccepts(st) == st = "200"

\* fetch resolves with a status other than 200, with or without a body:
\* clearTimeout, then throw new Error(`HTTP Error: ${response.status}`)
FetchNot200 ==
    /\ pc = "Fetching"
    /\ \E st \in Statuses :
          /\ ~responseAccepts(st)
          /\ status' = st
          /\ failure' = Rethrow(Error(<<"HTTP Error: ", st>>)).message
    /\ respBody' \in {"stream", "null"}
    /\ timer' = "cleared"
    /\ pc' = "Closed"
    /\ ending' = "threw"
    /\ UNCHANGED <<recs, terminated, wire, reader, pending, buffer, lines,
                   emitted, dropped, requests, reads, url, rejected>>
    /\ UNCHANGED otherVars

\* FetchNoBody without the test of response.body: getReader is called on null
FetchNoBody_NoTest ==
    /\ pc = "Fetching"
    /\ \E st \in Statuses :
          /\ responseAccepts(st)
          /\ status' = st
    /\ respBody' = "null"
    /\ timer' = "cleared"
    /\ failure' = <<"Cannot read properties of null (reading 'getReader')">>
    /\ pc' = "Closed"
    /\ ending' = "threw"
    /\ UNCHANGED <<recs, terminated, wire, reader, pending, buffer, lines,
                   emitted, dropped, requests, reads, url, rejected>>
    /\ UNCHANGED otherVars

\* fetch resolves with status 200 and response.body null: clearTimeout, then
\* throw new Error('Response body is null')
FetchNoBody ==
    /\ pc = "Fetching"
    /\ \E st \in Statuses :
          /\ responseAccepts(st)
          /\ status' = st
    /\ respBody' = "null"
    /\ timer' = "cleared"
    /\ failure' = Rethrow(Error(<<"Response body is null">>)).message
    /\ pc' = "Closed"
    /\ ending' = "threw"
    /\ UNCHANGED <<recs, terminated, wire, reader, pending, buffer, lines,
                   emitted, dropped, requests, reads, url, rejected>>
    /\ UNCHANGED otherVars

\* FetchOk without clearTimeout: the timer stays set while chunks are read
FetchOk_TimerKept ==
    /\ pc = "Fetching"
    /\ \E st \in Statuses :
          /\ responseAccepts(st)
          /\ status' = st
    /\ respBody' = "stream"
    /\ reader' = "held"
    /\ pending' = <<>>
    /\ buffer' = <<>>
    /\ reads' = reads + 1
    /\ pc' = "Reading"
    /\ UNCHANGED <<recs, terminated, wire, lines, emitted, dropped, failure,
                   requests, url, rejected, timer>>
    /\ UNCHANGED ending
    /\ UNCHANGED otherVars

\* fetch resolves with status 200 and a body: clearTimeout, getReader(),
\* new TextDecoder(), buffer = '', and the first `await reader.read()`
FetchOk ==
    /\ pc = "Fetching"
    /\ \E st \in Statuses :
          /\ responseAccepts(st)
          /\ status' = st
    /\ respBody' = "stream"
    /\ timer' = "cleared"
    /\ reader' = "held"
    /\ pending' = <<>>
    /\ buffer' = <<>>
    /\ reads' = reads + 1
    /\ pc' = "Reading"
    /\ UNCHANGED <<recs, terminated, wire, lines, emitted, dropped, failure,
                   requests, url, rejected>>
    /\ UNCHANGED ending
    /\ UNCHANGED otherVars

\* fetch rejects, with a network error or, after the timer fired and
\* controller.abort() ran, with an AbortError: fetchWithTimeout clears the timer
\* and rethrows the error or throws the timeout error, and response() rethrows
FetchReject ==
    /\ pc = "Fetching"
    /\ \E e \in {NetworkError, AbortError} :
          /\ rejected' = e
          /\ timer' = IF e = AbortError THEN "fired" ELSE "cleared"
          /\ failure' =
                Rethrow(fetchWithTimeoutCatch(e, client.timeout.read)).message
    /\ pc' = "Closed"
    /\ ending' = "threw"
    /\ UNCHANGED <<recs, terminated, wire, reader, pending, buffer, lines,
                   emitted, dropped, status, requests, reads, url, respBody>>
    /\ UNCHANGED otherVars

\* the pass of the while loop without lines.pop(): the last segment stays in
\* the lines and in the buffer
ProcessChunk_NoPop(buf, pend, value) ==
    LET dec == DecodeFrom(pend, value, <<>>)
        segs == split(buf \o dec.text)
    IN  [buffer |-> segs[Len(segs)],
         pending |-> dec.pending,
         lines |-> segs]

\* the pass of the while loop with `buffer = decoded text` in place of
\* `buffer += decoded text`: the text kept from the chunks before is lost
ProcessChunk_DropsBuffer(buf, pend, value) ==
    LET dec == DecodeFrom(pend, value, <<>>)
        segs == split(dec.text)
    IN  [buffer |-> segs[Len(segs)],
         pending |-> dec.pending,
         lines |-> SubSeq(segs, 1, Len(segs) - 1)]

\* one pass of the while loop up to the for loop: decode the chunk, append it
\* to the buffer, split on '\n', keep the last segment as the new buffer
ProcessChunk(buf, pend, value) ==
    LET dec == DecodeFrom(pend, value, <<>>)
        segs == split(buf \o dec.text)
    IN  [buffer |-> segs[Len(segs)],
         pending |-> dec.pending,
         lines |-> SubSeq(segs, 1, Len(segs) - 1)]

\* reader.read() resolves with {done: false, value}: the next n bytes
ReadChunk ==
    /\ pc = "Reading"
    /\ wire # <<>>
    /\ \E n \in 1..(IF Len(wire) < MaxChunk THEN Len(wire) ELSE MaxChunk) :
          LET c == ProcessChunk(buffer, pending, SubSeq(wire, 1, n))
          IN  /\ wire' = SubSeq(wire, n + 1, Len(wire))
              /\ buffer' = c.buffer
              /\ pending' = c.pending
              /\ Resume(c.lines)
    /\ UNCHANGED <<recs, terminated, reader, failure, status, requests>>
    /\ UNCHANGED ending
    /\ UNCHANGED fetchVars
    /\ UNCHANGED otherVars

\* ReadDone without the handling of the remaining buffer
ReadDone_NoFlush ==
    /\ pc = "Reading"
    /\ wire = <<>>
    /\ reader' = "released"
    /\ pc' = "Closed"
    /\ ending' = "returned"
    /\ UNCHANGED <<recs, terminated, wire, pending, buffer, lines, emitted, dropped,
                   failure, status, requests, reads>>
    /\ UNCHANGED fetchVars
    /\ UNCHANGED otherVars

\* reader.read() resolves with {done: true}: break, finally releaseLock(),
\* then the remaining buffer is tried as one last line
ReadDone ==
    /\ pc = "Reading"
    /\ wire = <<>>
    /\ reader' = "released"
    /\ IF Blank(buffer)
       THEN /\ pc' = "Closed"
            /\ ending' = "returned"
            /\ UNCHANGED <<emitted, dropped>>
       ELSE IF TryLine(buffer).ok
            THEN /\ emitted' = Append(emitted, TryLine(buffer).v)
                 /\ pc' = "YieldedFinal"
                 /\ UNCHANGED <<dropped, ending>>
            ELSE /\ dropped' = Append(dropped, buffer)
                 /\ pc' = "Closed"
                 /\ ending' = "returned"
                 /\ UNCHANGED emitted
    /\ UNCHANGED <<recs, terminated, wire, pending, buffer, lines, failure,
                   status, requests, reads>>
    /\ UNCHANGED fetchVars
    /\ UNCHANGED otherVars

\* ReadError without the finally clause
ReadError_NoFinally ==
    /\ pc = "Reading"
    /\ rejected' = ReadFailed
    /\ failure' = Rethrow(ReadFailed).message
    /\ pc' = "Closed"
    /\ ending' = "threw"
    /\ UNCHANGED <<recs, terminated, wire, reader, pending, buffer, lines, emitted,
                   dropped, status, requests, reads, url, timer, respBody>>
    /\ UNCHANGED otherVars

\* ReadError with the remaining buffer handled in the finally clause: the
\* text after the last "\n" is parsed and emitted before the error is thrown
ReadError_Flush ==
    /\ pc = "Reading"
    /\ reader' = "released"
    /\ IF ~Blank(buffer) /\ TryLine(buffer).ok
       THEN emitted' = Append(emitted, TryLine(buffer).v)
       ELSE emitted' = emitted
    /\ rejected' = ReadFailed
    /\ failure' = Rethrow(ReadFailed).message
    /\ pc' = "Closed"
    /\ ending' = "threw"
    /\ UNCHANGED <<recs, terminated, wire, pending, buffer, lines,
                   dropped, status, requests, reads, url, timer, respBody>>
    /\ UNCHANGED otherVars

\* reader.read() rejects: finally releaseLock(), the catch clause rethrows
ReadError ==
    /\ pc = "Reading"
    /\ reader' = "released"
    /\ rejected' = ReadFailed
    /\ failure' = Rethrow(ReadFailed).message
    /\ pc' = "Closed"
    /\ ending' = "threw"
    /\ UNCHANGED <<recs, terminated, wire, pending, buffer, lines, emitted,
                   dropped, status, requests, reads, url, timer, respBody>>
    /\ UNCHANGED otherVars

\* NextElement that issues the next read before the for loop has gone through
\* the lines of the chunk
NextElement_ReadsFirst ==
    /\ pc = "Yielded"
    /\ pc' = "Reading"
    /\ reads' = reads + 1
    /\ UNCHANGED <<recs, terminated, wire, reader, pending, buffer, lines,
                   emitted, dropped, failure, status, requests>>
    /\ UNCHANGED ending
    /\ UNCHANGED fetchVars
    /\ UNCHANGED otherVars

\* the consumer calls next() at a yield of the for loop: the loop goes on
NextElement ==
    /\ pc = "Yielded"
    /\ Resume(lines)
    /\ UNCHANGED <<recs, terminated, wire, reader, pending, buffer, failure,
                   status, requests>>
    /\ UNCHANGED ending
    /\ UNCHANGED fetchVars
    /\ UNCHANGED otherVars

\* NextFinal with the flush inside the while loop: after the last line the
\* generator reads again
NextFinal_ReadsAgain ==
    /\ pc = "YieldedFinal"
    /\ pc' = "Reading"
    /\ reads' = reads + 1
    /\ UNCHANGED <<recs, terminated, wire, reader, pending, buffer, lines,
                   emitted, dropped, failure, status, requests, ending>>
    /\ UNCHANGED fetchVars
    /\ UNCHANGED otherVars

\* the consumer calls next() at the yield of the last line: the generator ends
NextFinal ==
    /\ pc = "YieldedFinal"
    /\ pc' = "Closed"
    /\ ending' = "returned"
    /\ UNCHANGED <<recs, terminated, wire, reader, pending, buffer, lines,
                   emitted, dropped, failure, status, requests, reads>>
    /\ UNCHANGED fetchVars
    /\ UNCHANGED otherVars

\* the consumer abandons the iteration (break, return()) at a yield of the for
\* loop: the generator completes through finally releaseLock()
ReturnAtYield ==
    /\ pc = "Yielded"
    /\ reader' = "released"
    /\ pc' = "Closed"
    /\ ending' = "abandoned"
    /\ UNCHANGED <<recs, terminated, wire, pending, buffer, lines, emitted,
                   dropped, failure, status, requests, reads>>
    /\ UNCHANGED fetchVars
    /\ UNCHANGED otherVars

\* the consumer abandons the iteration at the yield of the last line, which
\* lies after the finally clause
ReturnFinal ==
    /\ pc = "YieldedFinal"
    /\ pc' = "Closed"
    /\ ending' = "abandoned"
    /\ UNCHANGED <<recs, terminated, wire, reader, pending, buffer, lines,
                   emitted, dropped, failure, status, requests, reads>>
    /\ UNCHANGED fetchVars
    /\ UNCHANGED otherVars

Next ==
    \/ Start
    \/ ReturnNotStarted
    \/ FetchNot200
    \/ FetchNoBody
    \/ FetchOk
    \/ FetchReject
    \/ ReadChunk
    \/ ReadDone
    \/ ReadError
    \/ NextElement
    \/ NextFinal
    \/ ReturnAtYield
    \/ ReturnFinal

Spec == Init /\ [][Next]_vars

(***************************************************************************)
(* Claims about response(), checked under Spec.                            *)
(***************************************************************************)
\* the generator ran to its end: the byte stream was read up to done
Completed == pc = "Closed" /\ ending = "returned"

\* the text of a record taken alone
RecText(r) == DecodeFrom(<<>>, r, <<>>).text

\* a record that decodes as JSON and that parse accepts
WellFormed(r) == TryLine(RecText(r)).ok

\* the records of the body that are not blank, in wire order
NonBlankRecs == SelectSeq(recs, LAMBDA r : ~Blank(r))

RECURSIVE ValuesOf(_)
\* parse of each well-formed record of rs, in order
ValuesOf(rs) ==
    IF rs = <<>> THEN <<>>
    ELSE IF WellFormed(Head(rs))
         THEN <<TryLine(RecText(Head(rs))).v>> \o ValuesOf(Tail(rs))
         ELSE ValuesOf(Tail(rs))

Malformed(rs) == {i \in 1..Len(rs) : ~WellFormed(rs[i])}

\* the errors a response() call can fail with: HTTP status, missing body,
\* and what the transport raised
StreamFailures ==
    {<<"HTTP Error: ", "409">>, <<"HTTP Error: ", "500">>, <<"Response body is null">>,
     <<"Network Error">>, <<"Request timeout after ", "600000", "ms">>, <<"read failed">>}

\* C1: a record that fails JSON decoding or discriminated parsing is dropped
\* and never fails the stream; of N non-blank records with exactly one
\* malformed, exactly the N-1 well-formed ones are emitted, those after the
\* malformed one included.
C1_MalformedLineDropped ==
    /\ ending = "threw" => failure \in StreamFailures
    /\ (Completed /\ Cardinality(Malformed(NonBlankRecs)) = 1)
          => /\ Len(emitted) = Len(NonBlankRecs) - 1
             /\ emitted = ValuesOf(NonBlankRecs)
             /\ Len(dropped) = 1

C1_Witness ==
    /\ Completed
    /\ Len(NonBlankRecs) = MaxRecs
    /\ Malformed(NonBlankRecs) = {1}
    /\ Len(emitted) = MaxRecs - 1
    /\ Len(dropped) = 1

RECURSIVE Collect(_, _)
\* every value the for loop yields over the lines ls
Collect(ls, acc) ==
    LET r == RunLines(ls, <<>>)
    IN  IF r.yield THEN Collect(r.rest, Append(acc, r.v)) ELSE acc

\* what response() emits when the whole body arrives as one chunk
OneChunkEmitted(body) ==
    LET c == ProcessChunk(<<>>, <<>>, body)
    IN  Collect(c.lines, <<>>)
        \o (IF ~Blank(c.buffer) /\ TryLine(c.buffer).ok
            THEN <<TryLine(c.buffer).v>>
            ELSE <<>>)

\* C3: the emitted sequence depends only on the bytes of the body, not on
\* how they are cut into chunks: whatever the chunks were, it is the sequence
\* emitted when the body arrives as a single chunk.
C3_ChunkingIndependent ==
    Completed => emitted = OneChunkEmitted(Body(recs, terminated))

\* one record with a two-byte character, delivered one byte per chunk
C3_Witness ==
    /\ Completed
    /\ recs = << <<"{", "T:responseData", "0xC3", "0xA9", "}">> >>
    /\ terminated
    /\ reads = Len(Body(recs, terminated)) + 1
    /\ Len(emitted) = 1

AllWellFormed ==
    /\ recs # <<>>
    /\ terminated
    /\ \A i \in 1..Len(recs) : ~Blank(recs[i]) /\ WellFormed(recs[i])

\* C4: for a body of N well-formed newline-terminated records, response()
\* emits exactly N objects, the i-th being the parse of the i-th record:
\* nothing is reordered, duplicated or lost.
C4_OrderPreserved ==
    AllWellFormed
        => /\ Len(emitted) <= Len(recs)
           /\ \A i \in 1..Len(emitted) : emitted[i] = TryLine(RecText(recs[i])).v
           /\ Completed => Len(emitted) = Len(recs)

C4_Witness ==
    /\ AllWellFormed /\ Completed
    /\ Len(recs) = MaxRecs
    /\ recs[1] # recs[MaxRecs]
    /\ Len(emitted) = MaxRecs

\* C5: once the reader is acquired it is released on every way the stream
\* ends (byte stream done, failed read, consumer abandoning at an element);
\* it is never held after the generator has finished.
C5_ReaderReleased ==
    /\ pc = "Closed" => reader # "held"
    /\ (pc = "Closed" /\ reads > 0) => reader = "released"
    /\ reader = "held" => pc \in {"Reading", "Yielded"}

C5_Witness ==
    /\ pc = "Closed" /\ ending = "threw" /\ failure = <<"read failed">>
    /\ emitted # <<>> /\ wire # <<>>
    /\ reader = "released"

\* the step on which the byte stream signals completion
DoneSignalled == pc = "Reading" /\ pc' \in {"YieldedFinal", "Closed"} /\ ending' # "threw"

\* C6: when the byte stream signals completion, a non-blank remaining buffer
\* is treated as one final record (emitted if it decodes and parses, dropped
\* otherwise) and the sequence ends; a blank buffer emits nothing; nothing is
\* emitted after the sequence has ended.
C6_FinalFlush ==
    [][ /\ DoneSignalled =>
             IF Blank(buffer)
             THEN emitted' = emitted /\ dropped' = dropped /\ pc' = "Closed"
             ELSE IF TryLine(buffer).ok
                  THEN /\ emitted' = Append(emitted, TryLine(buffer).v)
                       /\ dropped' = dropped
                  ELSE /\ emitted' = emitted
                       /\ dropped' = Append(dropped, buffer)
                       /\ pc' = "Closed"
        /\ pc = "YieldedFinal" => (pc' = "Closed" /\ emitted' = emitted)
        /\ pc = "Closed" => (pc' = "Closed" /\ emitted' = emitted)
      ]_vars

C6_Witness ==
    /\ Completed
    /\ ~terminated
    /\ Len(recs) = MaxRecs
    /\ \A i \in 1..Len(recs) : ~Blank(recs[i]) /\ WellFormed(recs[i])
    /\ Len(emitted) = MaxRecs
    /\ buffer = RecText(recs[MaxRecs])

\* C12: when the streaming request comes back with any status other than 200
\* (409 included), with or without a body, response() fails at the first
\* element request with the HTTP error that carries the status, emits no
\* element, and neither acquires a reader nor reads a byte of the body.
C12_Non200FailsBeforeBody ==
    status \notin {"", "200"}
        => /\ pc = "Closed"
           /\ ending = "threw"
           /\ failure = <<"HTTP Error: ", status>>
           /\ emitted = <<>>
           /\ reader = "none"
           /\ reads = 0
           /\ wire = Body(recs, terminated)

\* a 409 that came with a body has failed the stream
C12_Witness ==
    /\ status = "409" /\ respBody = "stream" /\ recs # <<>>
    /\ pc = "Closed" /\ failure = <<"HTTP Error: ", "409">>

(***************************************************************************)
(* SnowLeopardClient.retrieve: one call, between two suspensions.          *)
(***************************************************************************)
\* the status test of retrieve() with 409 thrown like any other error status
retrieveAccepts_Only200(st) == st = "200"

\* the status test of retrieve(): `status !== 200 && status !== 409` throws
retrieveAccepts(st) == st \in {"200", "409"}

\* response.json(): the body decoded as UTF-8 and handed to JSON.parse
responseJson(bytes) == JSONparse(DecodeFrom(<<>>, bytes, <<>>).text)

\* parseRetrieve with a catch clause that returns the data as received
parseRetrieve_ReturnData(data) ==
    LET r == parse(data)
    IN  IF r.ok THEN r ELSE Return(data)

\* parseRetrieve: parse(data), an error of parse wrapped in a new Error whose
\* message is `Failed to parse response: ${error}`
parseRetrieve(data) ==
    LET r == parse(data)
    IN  IF r.ok THEN r
        ELSE Throw(<<"Failed to parse response: ", "Error: ">> \o r.err)

\* retrieve(options) is called: it runs up to `await fetch(...)` inside
\* fetchWithTimeout, with the timer set
RetrieveCall ==
    /\ ret.pc = "NotStarted"
    /\ ret' = [ret EXCEPT !.pc = "Fetching",
                          !.url = RequestURL(client, ret.datafileId, "retrieve"),
                          !.timer = "armed",
                          !.requests = @ + 1]
    /\ UNCHANGED <<parseVars, streamVars, client, other, ctor>>

\* timeoutMs have passed since fetchWithTimeout was called and retrieve has
\* not completed: a timer still set runs controller.abort(), a cleared timer
\* runs nothing
TimeoutElapses ==
    /\ ret.pc \in {"Fetching", "Decoding"}
    /\ ~ret.elapsed
    /\ ret' = [ret EXCEPT !.elapsed = TRUE,
                          !.timer = IF @ = "armed" THEN "fired" ELSE @]
    /\ UNCHANGED <<parseVars, streamVars, client, other, ctor>>

\* RetrieveFetchReject with one more attempt after a network error
RetrieveFetchReject_Retry ==
    /\ ret.pc = "Fetching"
    /\ LET e == IF ret.timer = "fired" THEN AbortError ELSE NetworkError
       IN  ret' = IF e = NetworkError /\ ret.requests < 2
                  THEN [ret EXCEPT !.rejected = e, !.requests = @ + 1]
                  ELSE [ret EXCEPT
                          !.pc = "Closed",
                          !.rejected = e,
                          !.timer = IF @ = "armed" THEN "cleared" ELSE @,
                          !.failure = Rethrow(fetchWithTimeoutCatch(e, client.timeout.read)),
                          !.ending = "threw"]
    /\ UNCHANGED <<parseVars, streamVars, client, other, ctor>>

\* fetch rejects, with an AbortError after controller.abort() and with a
\* network error otherwise: clearTimeout, the catch clauses of
\* fetchWithTimeout and of retrieve
RetrieveFetchReject ==
    /\ ret.pc = "Fetching"
    /\ LET e == IF ret.timer = "fired" THEN AbortError ELSE NetworkError
       IN  ret' = [ret EXCEPT
                     !.pc = "Closed",
                     !.rejected = e,
                     !.timer = IF @ = "armed" THEN "cleared" ELSE @,
                     !.failure = Rethrow(fetchWithTimeoutCatch(e, client.timeout.read)),
                     !.ending = "threw"]
    /\ UNCHANGED <<parseVars, streamVars, client, other, ctor>>

\* fetch resolves before the timer fired: clearTimeout, then the status test,
\* which throws or goes on to `await response.json()`
RetrieveFetchResolve ==
    /\ ret.pc = "Fetching"
    /\ ret.timer = "armed"
    /\ \E st \in Statuses, b \in RecTexts :
          ret' = IF retrieveAccepts(st)
                 THEN [ret EXCEPT !.pc = "Decoding",
                                  !.timer = "cleared",
                                  !.status = st,
                                  !.data = b,
                                  !.jsonCalls = @ + 1]
                 ELSE [ret EXCEPT !.pc = "Closed",
                                  !.timer = "cleared",
                                  !.status = st,
                                  !.data = b,
                                  !.failure = Rethrow(Error(<<"HTTP Error: ", st>>)),
                                  !.ending = "threw"]
    /\ UNCHANGED <<parseVars, streamVars, client, other, ctor>>
\* response.json() rejects because the connection broke while the body was
\* read: retrieve rethrows
RetrieveBodyFails ==
    /\ ret.pc = "Decoding"
    /\ ret' = [ret EXCEPT !.pc = "Closed",
                          !.rejected = ReadFailed,
                          !.failure = Rethrow(ReadFailed),
                          !.ending = "threw"]
    /\ UNCHANGED <<parseVars, streamVars, client, other, ctor>>

\* response.json() settles on the whole body: a body that is not JSON rejects
\* with a SyntaxError, which retrieve rethrows; otherwise parseRetrieve(data)
\* returns the result or throws
RetrieveBody ==
    /\ ret.pc = "Decoding"
    /\ LET j == responseJson(ret.data)
           r == parseRetrieve(j.v)
       IN  ret' = IF ~j.ok
                  THEN [ret EXCEPT
                          !.pc = "Closed",
                          !.failure = Rethrow([name |-> "SyntaxError", message |-> j.err]),
                          !.ending = "threw"]
                  ELSE IF r.ok
                       THEN [ret EXCEPT !.pc = "Closed",
                                        !.result = r.v,
                                        !.ending = "returned"]
                       ELSE [ret EXCEPT !.pc = "Closed",
                                        !.failure = Rethrow(Error(r.err)),
                                        !.ending = "threw"]
    /\ UNCHANGED <<parseVars, streamVars, client, other, ctor>>

\* most records in the body of a response() call of SpecClient
MaxClientRecs == 2

\* the records of such a body: accepted, with an unknown tag, without a tag,
\* and cut short
ClientRecTexts ==
    { <<"{", "T:responseStart", "}">>,
      <<"{", "T:bogus", "}">>,
      <<"{", "}">>,
      <<"{", "T:responseStart">> }

\* a client, and one call on it: response() with a short body, or retrieve()
InitClient ==
    /\ pin = Null /\ pout = Return(Null) /\ ppc = "idle"
    /\ other = NoOther
    /\ ctor = NoConstruction
    /\ client \in Clients
    /\ reader = "none" /\ pending = <<>> /\ buffer = <<>> /\ lines = <<>>
    /\ emitted = <<>> /\ dropped = <<>> /\ failure = <<>> /\ ending = ""
    /\ status = "" /\ requests = 0 /\ reads = 0
    /\ url = <<>> /\ timer = "unset" /\ rejected = NoError /\ respBody = "unknown"
    /\ \/ /\ pc = "NotStarted"
          /\ recs \in SeqsUpTo(ClientRecTexts, MaxClientRecs)
          /\ terminated \in (IF recs = <<>> THEN {FALSE} ELSE BOOLEAN)
          /\ wire = Body(recs, terminated)
          /\ datafileId \in DatafileIds
          /\ ret = NoRetrieve
       \/ /\ pc = "None"
          /\ recs = <<>> /\ terminated = FALSE /\ wire = <<>>
          /\ datafileId = DAbsent
          /\ \E id \in DatafileIds :
                ret = [NoRetrieve EXCEPT !.pc = "NotStarted", !.datafileId = id]

\* timeoutMs have passed since the fetch of the response() call was issued
\* and the generator is in its while loop: the timer was cleared when fetch
\* resolved, so no callback runs and nothing is aborted
StreamTimeoutElapses ==
    /\ pc \in {"Reading", "Yielded"}
    /\ timer = "cleared"
    /\ timer' = "lapsed"
    /\ UNCHANGED <<recs, terminated, wire, pc, reader, pending, buffer, lines,
                   emitted, dropped, failure, ending, status, requests, reads,
                   datafileId, url, rejected, respBody>>
    /\ UNCHANGED otherVars

NextClient ==
    \/ Next
    \/ StreamTimeoutElapses
    \/ RetrieveCall
    \/ TimeoutElapses
    \/ RetrieveFetchReject
    \/ RetrieveFetchResolve
    \/ RetrieveBodyFails
    \/ RetrieveBody

SpecClient == InitClient /\ [][NextClient]_vars

(***************************************************************************)
(* Claims about retrieve() and about the request of both calls, checked    *)
(* under SpecClient.                                                       *)
(***************************************************************************)
\* the retrieve() call has completed after a response arrived
RetrieveAnswered == ret.pc = "Closed" /\ ret.status # ""

\* the body of the retrieve() call arrived whole, is JSON, and parse accepts it
BodyAccepted ==
    /\ ret.rejected = NoError
    /\ responseJson(ret.data).ok
    /\ parse(responseJson(ret.data).v).ok

\* C13 as stated: retrieve returns exactly when the status is 200 or 409
\* (a call whose body the transport failed to deliver set aside).
C13_ReturnsExactlyOn200Or409 ==
    (RetrieveAnswered /\ ret.rejected = NoError)
        => (ret.ending = "returned" <=> ret.status \in {"200", "409"})

\* C13: on status 200 or 409 retrieve reads the body once and returns it,
\* parsed and otherwise as the service sent it, exactly when the body arrives,
\* is JSON and is accepted by parse (a 409 is then a result like a 200); on
\* every other status it throws the HTTP error that carries the status and
\* never reads the body.
C13_ReturnsParsedBodyOn200Or409 ==
    RetrieveAnswered
        => IF ret.status \in {"200", "409"}
           THEN /\ ret.jsonCalls = 1
                /\ ret.ending = "returned" <=> BodyAccepted
                /\ ret.ending = "returned" => ret.result = responseJson(ret.data).v
           ELSE /\ ret.ending = "threw"
                /\ ret.failure = Error(<<"HTTP Error: ", ret.status>>)
                /\ ret.jsonCalls = 0

\* a 409 whose body was returned with its members
C13_Witness ==
    /\ ret.pc = "Closed" /\ ret.status = "409" /\ ret.ending = "returned"
    /\ ret.result = Obj(DStr("responseData"), <<"U+00E9">>, <<>>)

\* the bytes of the body the reader of the response() call has delivered
Delivered ==
    SubSeq(Body(recs, terminated), 1, Len(Body(recs, terminated)) - Len(wire))

\* C14: a transport failure reaches the caller as the error the transport
\* raised: a fetch of retrieve() or response() rejected with an error that is
\* not an abort, and a chunk read of response() that failed, make the call
\* fail with exactly that error; in a stream the failure comes after every
\* complete line of the chunks delivered before it was emitted or dropped.
C14_TransportErrorUnchanged ==
    /\ (ret.rejected \notin {NoError, AbortError})
          => /\ ret.pc = "Closed"
             /\ ret.ending = "threw"
             /\ ret.failure = ret.rejected
    /\ (rejected \notin {NoError, AbortError})
          => /\ pc = "Closed"
             /\ ending = "threw"
             /\ failure = rejected.message
             /\ lines = <<>>
             /\ emitted = Collect(ProcessChunk(<<>>, <<>>, Delivered).lines, <<>>)

\* a chunk read failed after an element of an earlier chunk was emitted
C14_Witness ==
    /\ rejected = ReadFailed /\ failure = <<"read failed">>
    /\ emitted # <<>> /\ pc = "Closed"

\* C15: when the streaming request comes back with status 200 and no body,
\* response() fails with the error 'Response body is null', which is neither
\* an HTTP error nor an error of the transport, and emits no element.
C15_NoBodyFails ==
    (status = "200" /\ respBody = "null")
        => /\ pc = "Closed"
           /\ ending = "threw"
           /\ failure = <<"Response body is null">>
           /\ Head(failure) # "HTTP Error: "
           /\ rejected = NoError
           /\ emitted = <<>>
           /\ reader = "none"

\* a 200 without a body answered a request whose body would have had records
C15_Witness ==
    /\ status = "200" /\ respBody = "null" /\ pc = "Closed"
    /\ failure = <<"Response body is null">> /\ recs # <<>>

\* C16: if the read timeout elapses before a retrieve() call has completed,
\* the fetch is aborted and the call fails with the error 'Request timeout
\* after <timeout.read>ms'; it neither fails with another error nor returns.
C16_TimeoutAbortsRetrieve ==
    ret.elapsed
        => /\ ret.timer = "fired"
           /\ ret.pc = "Closed"
                 => /\ ret.ending = "threw"
                    /\ ret.failure =
                          Error(<<"Request timeout after ", client.timeout.read, "ms">>)

\* the body is JSON for an object that parse rejects: its discriminator is
\* missing or is not one the parser knows
DiscriminatorFails(b) ==
    /\ responseJson(b).ok
    /\ responseJson(b).v.k = "object"
    /\ ~parse(responseJson(b).v).ok

\* C17: a discriminator failure aborts a retrieve() call: on status 200 or
\* 409 with a body that is an object whose discriminator is missing or
\* unknown, retrieve throws the wrapped error of parse and returns nothing.
\* The same object as a line of a response() body is reported and dropped:
\* the stream fails only for its status, a missing body or the transport, and
\* when it ends it has emitted every well-formed record.
C17_DiscriminatorFailureAbortsRetrieve ==
    /\ (/\ ret.pc = "Closed"
        /\ ret.status \in {"200", "409"}
        /\ ret.rejected = NoError
        /\ DiscriminatorFails(ret.data))
          => /\ ret.ending = "threw"
             /\ ret.result = Null
             /\ ret.failure =
                   Error(<<"Failed to parse response: ", "Error: ">>
                            \o parse(responseJson(ret.data).v).err)
    /\ ending = "threw"
          => (status # "200" \/ respBody = "null" \/ rejected # NoError)
    /\ Completed
          => /\ emitted = ValuesOf(NonBlankRecs)
             /\ \A i \in 1..Len(recs) :
                   DiscriminatorFails(recs[i])
                       => \E j \in 1..Len(dropped) : dropped[j] = RecText(recs[i])

\* retrieve() failed on a 409 whose body carries an unknown discriminator
C17_Witness ==
    /\ ret.pc = "Closed" /\ ret.status = "409" /\ ret.ending = "threw"
    /\ ret.data = <<"{", "T:bogus", "}">>
    /\ ret.failure =
          Error(<<"Failed to parse response: ", "Error: ", "Unknown response type ", "bogus">>)

\* C18: no retry.  A response() stream that was started and a retrieve() call
\* have issued exactly one fetch, however they went on or ended (result, HTTP
\* error, timeout, transport failure, parse failure), and a stream that was
\* never started has issued none.
C18_NoRetry ==
    /\ pc \in {"Fetching", "Reading", "Yielded", "YieldedFinal"} => url # <<>>
    /\ ending \in {"returned", "threw"} => url # <<>>
    /\ requests = (IF url = <<>> THEN 0 ELSE 1)
    /\ ret.requests = (IF ret.pc \in {"None", "NotStarted"} THEN 0 ELSE 1)

\* a retrieve() call that failed on a network error issued one request
C18_Witness ==
    /\ ret.pc = "Closed" /\ ret.ending = "threw"
    /\ ret.rejected = NetworkError /\ ret.requests = 1

\* a datafile id was given to the call: not left out and not the empty string
Supplied(id) == id.k = "string" /\ id.s # ""

\* the URL the claim gives for the client c, the datafile id and the endpoint
ClaimedURL(c, id, endpoint) ==
    IF Supplied(id)
    THEN <<c.baseURL, "datafiles", id.s, endpoint>>
    ELSE <<c.baseURL, endpoint>>

OtherResume(o, ls) ==
    LET r == RunLines(ls, o.dropped)
    IN  [o EXCEPT !.dropped = r.dropped,
                  !.lines = r.rest,
                  !.emitted = IF r.yield THEN Append(@, r.v) ELSE @,
                  !.pc = IF r.yield THEN "Yielded" ELSE "Reading",
                  !.reads = IF r.yield THEN @ ELSE @ + 1]

\* first next() of the second generator, up to `await fetch(...)`
OtherStart ==
    /\ other.pc = "NotStarted"
    /\ other' = [other EXCEPT !.pc = "Fetching"]
    /\ UNCHANGED <<parseVars, streamVars, client, ret, ctor>>

\* its fetch resolves with status 200 and a body: its own reader, decoder and
\* buffer, and the first read
OtherFetchOk ==
    /\ other.pc = "Fetching"
    /\ other' = [other EXCEPT !.pc = "Reading",
                              !.reader = "held",
                              !.pending = <<>>,
                              !.buffer = <<>>,
                              !.reads = @ + 1]
    /\ UNCHANGED <<parseVars, streamVars, client, ret, ctor>>

\* OtherReadChunk with `buffer` kept by the client instead of by the call:
\* the chunk is appended to the buffer of the first generator
OtherReadChunk_SharedBuffer ==
    /\ other.pc = "Reading"
    /\ other.wire # <<>>
    /\ \E n \in 1..(IF Len(other.wire) < MaxChunk THEN Len(other.wire) ELSE MaxChunk) :
          LET c == ProcessChunk(buffer, other.pending, SubSeq(other.wire, 1, n))
              o == [other EXCEPT !.wire = SubSeq(@, n + 1, Len(@)),
                                 !.pending = c.pending]
          IN  /\ other' = OtherResume(o, c.lines)
              /\ buffer' = c.buffer
    /\ UNCHANGED <<recs, terminated, wire, pc, reader, pending, lines, emitted,
                   dropped, failure, ending, status, requests, reads, datafileId,
                   url, timer, rejected, respBody>>
    /\ UNCHANGED <<parseVars, client, ret, ctor>>

\* its reader.read() resolves with the next n bytes: one pass of the while
\* loop on its own buffer
OtherReadChunk ==
    /\ other.pc = "Reading"
    /\ other.wire # <<>>
    /\ \E n \in 1..(IF Len(other.wire) < MaxChunk THEN Len(other.wire) ELSE MaxChunk) :
          LET c == ProcessChunk(other.buffer, other.pending, SubSeq(other.wire, 1, n))
              o == [other EXCEPT !.wire = SubSeq(@, n + 1, Len(@)),
                                 !.buffer = c.buffer,
                                 !.pending = c.pending]
          IN  other' = OtherResume(o, c.lines)
    /\ UNCHANGED <<parseVars, streamVars, client, ret, ctor>>

\* its reader.read() resolves with {done: true}: releaseLock, then the
\* remaining buffer is tried as one last line
OtherReadDone ==
    /\ other.pc = "Reading"
    /\ other.wire = <<>>
    /\ other' =
          IF Blank(other.buffer)
          THEN [other EXCEPT !.reader = "released", !.pc = "Closed",
                             !.ending = "returned"]
          ELSE IF TryLine(other.buffer).ok
               THEN [other EXCEPT !.reader = "released", !.pc = "YieldedFinal",
                                  !.emitted = Append(@, TryLine(other.buffer).v)]
               ELSE [other EXCEPT !.reader = "released", !.pc = "Closed",
                                  !.ending = "returned",
                                  !.dropped = Append(@, other.buffer)]
    /\ UNCHANGED <<parseVars, streamVars, client, ret, ctor>>

\* its consumer calls next() at a yield of the for loop
OtherNextElement ==
    /\ other.pc = "Yielded"
    /\ other' = OtherResume(other, other.lines)
    /\ UNCHANGED <<parseVars, streamVars, client, ret, ctor>>

\* its consumer calls next() at the yield of the last line
OtherNextFinal ==
    /\ other.pc = "YieldedFinal"
    /\ other' = [other EXCEPT !.pc = "Closed", !.ending = "returned"]
    /\ UNCHANGED <<parseVars, streamVars, client, ret, ctor>>

\* the bodies of SpecPair: one record with its newline, one record with a
\* two-byte character and no newline, and both records
PairBodies ==
    { [recs |-> << <<"{", "T:responseStart", "}">> >>, terminated |-> TRUE],
      [recs |-> << <<"{", "T:responseData", "0xC3", "0xA9", "}">> >>,
       terminated |-> FALSE],
      [recs |-> << <<"{", "T:responseStart", "}">>,
                   <<"{", "T:responseData", "0xC3", "0xA9", "}">> >>,
       terminated |-> TRUE] }

\* a client, a response() call on it, and a second call on it: response() or
\* retrieve()
InitPair ==
    /\ pin = Null /\ pout = Return(Null) /\ ppc = "idle"
    /\ client \in Clients
    /\ \E b \in PairBodies :
          /\ recs = b.recs
          /\ terminated = b.terminated
          /\ wire = Body(b.recs, b.terminated)
    /\ pc = "NotStarted" /\ reader = "none"
    /\ pending = <<>> /\ buffer = <<>> /\ lines = <<>>
    /\ emitted = <<>> /\ dropped = <<>> /\ failure = <<>> /\ ending = ""
    /\ status = "" /\ requests = 0 /\ reads = 0
    /\ datafileId = DAbsent /\ url = <<>> /\ timer = "unset"
    /\ rejected = NoError /\ respBody = "unknown"
    /\ \/ /\ ret = NoRetrieve
          /\ \E b \in PairBodies :
                other = [NoOther EXCEPT !.pc = "NotStarted",
                                        !.recs = b.recs,
                                        !.terminated = b.terminated,
                                        !.wire = Body(b.recs, b.terminated)]
       \/ /\ other = NoOther
          /\ ret = [NoRetrieve EXCEPT !.pc = "NotStarted"]
    /\ ctor = NoConstruction

NextPair ==
    \/ Next
    \/ RetrieveCall
    \/ TimeoutElapses
    \/ RetrieveFetchReject
    \/ RetrieveFetchResolve
    \/ RetrieveBodyFails
    \/ RetrieveBody
    \/ OtherStart
    \/ OtherFetchOk
    \/ OtherReadChunk
    \/ OtherReadDone
    \/ OtherNextElement
    \/ OtherNextFinal

SpecPair == InitPair /\ [][NextPair]_vars

\* s is an initial part of t
IsPrefix(s, t) == Len(s) <= Len(t) /\ s = SubSeq(t, 1, Len(s))

\* what a retrieve() call run alone makes of a body that arrived on status
\* 200 or 409
RetrieveAlone(b) ==
    IF ~responseJson(b).ok
    THEN [ending |-> "threw", result |-> Null,
          failure |-> [name |-> "SyntaxError", message |-> responseJson(b).err]]
    ELSE IF parse(responseJson(b).v).ok
         THEN [ending |-> "returned", result |-> responseJson(b).v, failure |-> NoError]
         ELSE [ending |-> "threw", result |-> Null,
               failure |-> Error(<<"Failed to parse response: ", "Error: ">>
                                    \o parse(responseJson(b).v).err)]

\* each call has, at any point of any interleaving, what it has when run alone
AsAlone ==
    /\ IsPrefix(emitted, OneChunkEmitted(Body(recs, terminated)))
    /\ Completed => emitted = OneChunkEmitted(Body(recs, terminated))
    /\ IsPrefix(other.emitted, OneChunkEmitted(Body(other.recs, other.terminated)))
    /\ other.ending = "returned"
          => other.emitted = OneChunkEmitted(Body(other.recs, other.terminated))
    /\ (ret.pc = "Closed" /\ ret.rejected = NoError /\ ret.status \in {"200", "409"})
          => /\ ret.ending = RetrieveAlone(ret.data).ending
             /\ ret.result = RetrieveAlone(ret.data).result
             /\ ret.failure = RetrieveAlone(ret.data).failure

\* C19: concurrent calls on one client do not interfere.  In every
\* interleaving of a response() stream with a second response() stream or
\* with a retrieve() call, each call emits or returns what it does when run
\* alone on the same input, and the client's API key, base URL and timeouts
\* are never changed.
C19_CallsDoNotInterfere == [](AsAlone /\ client \in Clients) /\ [][client' = client]_vars

\* two generators that have each emitted their first record hold their
\* readers in the middle of the second one, each with its own text in its
\* buffer, the second with half a character in its decoder
C19_Witness ==
    /\ reader = "held" /\ other.reader = "held"
    /\ Len(emitted) = 1 /\ Len(other.emitted) = 1
    /\ buffer # <<>> /\ other.buffer # <<>> /\ buffer # other.buffer
    /\ pending = <<>> /\ other.pending # <<>>

(***************************************************************************)
(* The constructor: one call of new SnowLeopardClient(options).            *)
(***************************************************************************)
\* what a caller passes for the API key, and what the environment holds
KeyValues == {DAbsent, DStr(""), DStr("key")}
EnvKeyValues == {DAbsent, DStr(""), DStr("envkey")}
\* what a caller passes for the base URL, and what the environment holds
URLValues == {DAbsent, DStr("http://localhost:8000")}
EnvURLValues == {DAbsent, DStr("http://env:8000")}
\* what a caller passes for one timeout value, in ms
TimeoutValues == {DAbsent, DNum("0"), DNum("30000")}

\* the options of the model; no options object reads as NoOptions
OptionsSet ==
    { [apiKey |-> k, baseURL |-> u, timeout |-> [connect |-> c, read |-> r, write |-> w]] :
        k \in KeyValues, u \in URLValues,
        c \in TimeoutValues, r \in TimeoutValues, w \in TimeoutValues }

\* the environments of the model: a browser without `process`, and Node.js
Envs ==
    {EnvOf(FALSE, DAbsent, DAbsent)}
        \cup {EnvOf(TRUE, k, u) : k \in EnvKeyValues, u \in EnvURLValues}

InitConstruct ==
    /\ pin = Null /\ pout = Return(Null) /\ ppc = "idle"
    /\ recs = <<>> /\ terminated = FALSE /\ wire = <<>>
    /\ pc = "None" /\ reader = "none"
    /\ pending = <<>> /\ buffer = <<>> /\ lines = <<>>
    /\ emitted = <<>> /\ dropped = <<>> /\ failure = <<>> /\ ending = ""
    /\ status = "" /\ requests = 0 /\ reads = 0
    /\ datafileId = DAbsent /\ url = <<>> /\ timer = "unset"
    /\ rejected = NoError /\ respBody = "unknown"
    /\ ret = NoRetrieve
    /\ other = NoOther
    /\ client = NoClient
    /\ \E o \in OptionsSet, e \in Envs :
          ctor = [pc |-> "NotStarted", options |-> o, env |-> e, error |-> NoError]

\* new SnowLeopardClient(options) returns the object or throws
Construct ==
    /\ ctor.pc = "NotStarted"
    /\ LET r == SnowLeopardClient(ctor.options, ctor.env)
       IN  /\ ctor' = [ctor EXCEPT !.pc = IF r.ok THEN "Built" ELSE "Threw",
                                   !.error = r.error]
           /\ client' = r.client
    /\ UNCHANGED <<parseVars, streamVars, ret, other>>

NextConstruct == Construct

SpecConstruct == InitConstruct /\ [][NextConstruct]_vars

\* the value is one a caller or the environment can mean as a setting: it is
\* neither left out nor the empty string
Given(v) == v.k = "string" /\ v.s # ""

\* the API key the environment provides, if any
EnvKey == IF ctor.env.hasProcess THEN ctor.env.SNOWLEOPARD_API_KEY ELSE DAbsent

\* C21: construction fails with the error 'Missing required argument
\* "apiKey"...' exactly when neither the options nor the environment give an
\* API key; otherwise it succeeds, with the key of the options when they give
\* one and with the key of the environment when they do not.
C21_MissingApiKey ==
    ctor.pc \in {"Built", "Threw"}
        => /\ ctor.pc = "Threw" <=> (~Given(ctor.options.apiKey) /\ ~Given(EnvKey))
           /\ ctor.pc = "Threw"
                 => /\ Head(ctor.error.message) = "Missing required argument \"apiKey\". "
                    /\ client = NoClient
           /\ ctor.pc = "Built"
                 => client.apiKey = (IF Given(ctor.options.apiKey)
                                     THEN ctor.options.apiKey.s
                                     ELSE EnvKey.s)

\* the options give no key and the client was built with the environment's
C21_Witness ==
    /\ ctor.pc = "Built"
    /\ ctor.options.apiKey = DAbsent
    /\ client.apiKey = "envkey"

\* the defaults of the timeout values, in ms
TimeoutDefaults == [connect |-> "5000", read |-> "600000", write |-> "10000"]

\* C30: each of the timeout values connect, read and write of a client is the
\* value the caller supplied whenever the caller supplied one, and its own
\* default (5000, 600000, 10000 ms) only when none was supplied, whatever
\* the other two are.
C30_TimeoutsIndependentlyDefaulted ==
    ctor.pc = "Built"
        => \A f \in {"connect", "read", "write"} :
              client.timeout[f] = (IF ctor.options.timeout[f] # DAbsent
                                   THEN ctor.options.timeout[f].s
                                   ELSE TimeoutDefaults[f])

(***************************************************************************)
(* Further claims about response(), checked under Spec.                    *)
(***************************************************************************)
\* the phase of the generator: 0 NotStarted (no reader yet), 1 Reading (in
\* the while loop, the reader held), 2 Draining (at the yield of the
\* remaining buffer, the reader released), 3 Closed
Phase ==
    CASE pc \in {"Reading", "Yielded"} -> 1
      [] pc = "YieldedFinal" -> 2
      [] pc = "Closed" -> 3
      [] OTHER -> 0

\* C22: a response() stream goes through NotStarted, Reading, Draining and
\* Closed in that order only: Reading may repeat, Draining is entered from
\* Reading only, a failure or an abandonment goes straight to Closed, nothing
\* changes once the stream is Closed, and a read of the body is issued only
\* while the reader is held, never after it was released.
C22_Lifecycle ==
    [][/\ Phase' >= Phase
       /\ (Phase' = 2 /\ Phase # 2) => Phase = 1
       /\ Phase = 3 => UNCHANGED streamVars
       /\ reads' # reads => (reader' = "held" /\ Phase' = 1)
       /\ reader = "released" => (reads' = reads /\ reader' = "released")
       /\ (Phase' = 1) = (reader' = "held")]_vars

\* a stream that ended after its last record, which had no newline, was
\* emitted by the flush
C22_Witness ==
    /\ Completed /\ ~terminated /\ Len(recs) >= 2
    /\ Len(emitted) = Len(recs) /\ reader = "released" /\ reads >= 2

\* C23: every element response() emits is a parsed response object: an
\* object that carries one of the discriminator tags the parser accepts,
\* whatever the body contains.
C23_EmittedAreResponseObjects ==
    \A i \in 1..Len(emitted) :
        /\ emitted[i].k = "object"
        /\ emitted[i].d.k = "string"
        /\ emitted[i].d.s \in SwitchCases

\* the error of a timeout of the response() call
StreamTimedOut == failure # <<>> /\ Head(failure) = "Request timeout after "

\* C24: in the streaming path the timeout bounds the wait for the response
\* only.  Once fetchWithTimeout has returned or thrown its timer is no longer
\* set; once the status has arrived nothing is aborted and the stream does not
\* fail with the timeout error, however long the reads take: a stream whose
\* timeout has passed during the reads still ends with every well-formed
\* record emitted.  The timeout error comes only before any status, reader or
\* read.
C24_TimeoutBoundsInitialResponseOnly ==
    /\ pc \in {"Reading", "Yielded", "YieldedFinal"} => timer \in {"cleared", "lapsed"}
    /\ (pc = "Closed" /\ url # <<>>) => timer \in {"cleared", "lapsed", "fired"}
    /\ status # "" => /\ timer \in {"cleared", "lapsed"}
                      /\ rejected # AbortError
                      /\ ~StreamTimedOut
    /\ StreamTimedOut
          => /\ failure = <<"Request timeout after ", client.timeout.read, "ms">>
             /\ status = "" /\ reader = "none" /\ reads = 0 /\ emitted = <<>>
    /\ (timer = "lapsed" /\ Completed) => emitted = ValuesOf(NonBlankRecs)

\* the timeout passed while chunks were read and the stream went on to emit
\* its records and to end
C24_Witness ==
    /\ timer = "lapsed" /\ Completed
    /\ Len(emitted) = 2 /\ reads >= 2

\* the complete lines of the bytes delivered so far: all but the text after
\* the last "\n"
CompleteLines == ProcessChunk(<<>>, <<>>, Delivered).lines

RECURSIVE DropsOf(_)
\* the lines of ls that are not blank and fail JSON.parse or parse, in order
DropsOf(ls) ==
    IF ls = <<>> THEN <<>>
    ELSE IF ~Blank(Head(ls)) /\ ~TryLine(Head(ls)).ok
         THEN <<Head(ls)>> \o DropsOf(Tail(ls))
         ELSE DropsOf(Tail(ls))

\* C25: a read of the body is outstanding only while the generator waits at
\* `await reader.read()`, one at a time, and the generator gets there only
\* after every complete record of the chunks received so far was emitted to
\* the consumer, who asked for the next element, or dropped.  So a well-formed
\* record followed by its newline has been emitted while the stream waits for
\* a chunk that may never come.
C25_ReadAfterRecordsHandled ==
    /\ reads <= 1 + Len(Delivered)
    /\ pc = "Reading"
          => /\ lines = <<>>
             /\ emitted = Collect(CompleteLines, <<>>)
             /\ dropped = DropsOf(CompleteLines)
    /\ pc = "Yielded"
          => /\ IsPrefix(emitted, Collect(CompleteLines, <<>>))
             /\ IsPrefix(dropped, DropsOf(CompleteLines))

\* the stream waits for the rest of the body with the first record, which
\* came with its newline, already emitted
C25_Witness ==
    /\ pc = "Reading" /\ wire # <<>> /\ buffer = <<>>
    /\ Len(emitted) = 1 /\ Len(Delivered) = Len(recs[1]) + 1

\* C26: when a chunk read fails, the text held in the buffer, an incomplete
\* last record, is neither parsed nor emitted: the stream ends with the error
\* and with exactly the elements and the dropped lines of the complete lines
\* received before; the remaining buffer is handled only after the byte
\* stream signalled its end.
C26_NoFlushAfterReadFailure ==
    /\ rejected = ReadFailed
          => /\ pc = "Closed"
             /\ ending = "threw"
             /\ emitted = Collect(CompleteLines, <<>>)
             /\ dropped = DropsOf(CompleteLines)
    /\ pc = "YieldedFinal" => (wire = <<>> /\ rejected = NoError)

\* a read failed while the buffer held a whole well-formed record that lacked
\* only its newline; the record was not emitted
C26_Witness ==
    /\ rejected = ReadFailed /\ pc = "Closed"
    /\ ~Blank(buffer) /\ TryLine(buffer).ok
    /\ wire = <<>> /\ emitted = <<>>

(***************************************************************************)
(* A further claim about parse, checked under SpecParse.                   *)
(***************************************************************************)
\* C27: whether parse accepts an object that is not an array depends on its
\* discriminator only: every object with the same discriminator, whatever its
\* other fields and whatever the entries of its data sequence, is accepted
\* like it and returned as it is, or rejected like it with the same error.
C27_OnlyDiscriminatorMatters ==
    (ParseCalled /\ pin.k = "object")
        => \A o \in Objects :
              o.d = pin.d
                  => /\ parse(o).ok = pout.ok
                     /\ parse(o).err = pout.err
                     /\ pout.ok => (pout.v = pin /\ parse(o).v = o)

\* an object with a known tag, a wrongly typed field and a data sequence whose
\* entry has no discriminator was accepted
C27_Witness ==
    /\ ppc = "returned"
    /\ pin = Obj(DStr("responseData"), <<"callId:number", "extra">>, <<UntaggedObj>>)
    /\ pout.v = pin

\* the text of the bytes delivered so far
DeliveredText == DecodeFrom(<<>>, Delivered, <<>>).text

\* the position of the last "\n" of the text t, 0 if it has none
LastLF(t) ==
    IF \E i \in 1..Len(t) : t[i] = LF
    THEN CHOOSE i \in 1..Len(t) : t[i] = LF /\ \A j \in (i + 1)..Len(t) : t[j] # LF
    ELSE 0

\* s is a final part of t
IsSuffix(s, t) ==
    Len(s) <= Len(t) /\ s = SubSeq(t, Len(t) - Len(s) + 1, Len(t))

\* C28: once response() has its reader, after any chunk its buffer holds no
\* "\n" and is exactly the text received after the last "\n" (empty when the
\* text ends with one); the lines handed to the for loop, joined by "\n" and
\* followed by "\n" and the buffer, are the text received, nothing lost and
\* nothing twice, and the lines not visited yet are the last of them.
C28_BufferIsTextAfterLastSeparator ==
    reader # "none"
        => /\ \A i \in 1..Len(buffer) : buffer[i] # LF
           /\ buffer = SubSeq(DeliveredText, LastLF(DeliveredText) + 1, Len(DeliveredText))
           /\ IF LastLF(DeliveredText) = 0
              THEN CompleteLines = <<>>
              ELSE Join(CompleteLines) \o <<LF>> \o buffer = DeliveredText
           /\ IsSuffix(lines, CompleteLines)

\* the second chunk ended in the middle of a record: the buffer holds the
\* beginning of that record and the first record was emitted
C28_Witness ==
    /\ pc = "Reading" /\ reads >= 3
    /\ Len(emitted) = 1 /\ Len(buffer) >= 2 /\ wire # <<>>

\* C29: a record that is empty or holds whitespace only is skipped: nothing
\* is emitted for it, it is not parsed (so no parse failure is reported for
\* it) and it does not fail the stream; the emitted sequence is that of the
\* non-blank records alone, so blank lines put anywhere between the records
\* of a body leave it unchanged.
C29_BlankRecordsSkipped ==
    /\ \A i \in 1..Len(dropped) : ~Blank(dropped[i])
    /\ ending = "threw" => \A r \in RecTexts : Blank(r) => failure # TryLine(r).err
    /\ Completed
          => /\ emitted = ValuesOf(NonBlankRecs)
             /\ Len(dropped) = Cardinality(Malformed(NonBlankRecs))

\* a whitespace-only record between two well-formed ones and a body that was
\* read to its end: both well-formed records were emitted
C29_Witness ==
    /\ Completed
    /\ Len(recs) = 3 /\ recs[2] = <<" ">>
    /\ WellFormed(recs[1]) /\ WellFormed(recs[3])
    /\ Len(emitted) = 2
    /\ dropped = <<>>

=============================================================================
